---- MODULE Spec2Model ----
(***************************************************************************)
(* The autonomous incident agent: the MCP client (mcp_client.py), the      *)
(* investigation loop and its tool dispatch (autonomous_incident_agent.py) *)
(* and the background task that runs one incident (main.py).               *)
(*                                                                         *)
(* Strings that the code builds or takes apart are modelled structurally:  *)
(* a tool name is the sequence of its symbols, where "_" is the separator  *)
(* character and every other symbol stands for a run of characters without *)
(* a separator; json.dumps(v) and the f-string of an error are tagged      *)
(* records, so that the two encodings stay different values.               *)
(***************************************************************************)
EXTENDS Integers, Sequences, FiniteSets, TLC

VARIABLES
    connected_servers,   \* MCPClient.connected_servers: dict name -> connection info
    session,             \* MCPClient.session: "none" | "open" | "closed"
    request_id_counter,  \* MCPClient._request_id_counter
    sent,                \* history: the requests posted, in issue order
    dropped,             \* history: names that were removed from connected_servers
    pc,                  \* position of the task that handles the incident
    iteration,           \* local of _conduct_autonomous_investigation
    messages,            \* the conversation of the investigation
    content,             \* response.content of the model turn being executed
    idx,                 \* position of _execute_tool_calls in content
    results,             \* local of _execute_tool_calls
    outcome,             \* how _conduct_autonomous_investigation ended
    calls,               \* history: the model-completion calls and how each ended
    dispatched,          \* history: the tool requests of the current batch and how each ended
    notes,               \* history: the update_opsgenie_ticket invocations
    last_call,           \* history: the last operation of the client and how it ended
    handled,             \* history of the server: the requests handled, with the responses
    srv_session,         \* OpsGenieMCPServer.session: "none" | "open"
    tasks,               \* the tasks that share the client: position, request, response
    spc,                 \* position of AutonomousIncidentAgent.initialize
    cursor,              \* the server initialize or _discover_tools is at
    available_tools,     \* AutonomousIncidentAgent.available_tools
    initialized,         \* AutonomousIncidentAgent.initialized
    listed,              \* history: how list_tools ended for each server of a discovery
    given,               \* history: the catalog given to each model-completion call
    naming,              \* one tool name on its way through prefixing and dispatch
    convs,               \* the investigations of several incidents: position, conversation
    webhooks             \* history: the webhook requests handled, with the responses

vars == <<connected_servers, session, request_id_counter, sent, dropped, pc,
          iteration, messages, content, idx, results, outcome, calls,
          dispatched, notes, last_call, handled, srv_session, tasks, spc, cursor,
          available_tools, initialized, listed, given, naming, convs, webhooks>>

clientVars == <<connected_servers, session, request_id_counter, sent, dropped>>
serverVars == <<handled, srv_session>>
taskVars == <<tasks>>
startVars == <<spc, cursor, available_tools, initialized, listed>>
extraVars == <<given, naming, convs, webhooks>>
\* variables that the specifications of one investigation leave alone
historyVars == <<last_call, serverVars, taskVars, startVars, extraVars>>
agentVars == <<pc, iteration, messages, content, idx, results, outcome, calls,
               dispatched, notes>>
\* variables that the specification of the client alone leaves alone
nonClientVars == <<agentVars, serverVars, taskVars, startVars, extraVars>>

---------------------------------------------------------------------------
(* Bounds of the model *)

\* requests one client instance may post in the client specification
MaxRequests == 4
\* tool_use blocks the model may produce during one investigation under Spec
MaxToolCalls == 2
\* content blocks of a final (non tool_use) response
MaxTextBlocks == 2

---------------------------------------------------------------------------
(* Data *)

\* self.mcp_servers[server_name]['name']
server_title(server_name) ==
    IF server_name = <<"grafana">> THEN "Grafana MCP Server" ELSE "OpsGenie MCP Server"

\* keys of AutonomousIncidentAgent.mcp_servers, in dict order
mcp_servers == << <<"grafana">>, <<"opsgenie">> >>
Servers == {mcp_servers[i] : i \in 1..Len(mcp_servers)}

Sep == "_"

EmptyDict == [n \in {} |-> n]

\* payloads of a successful envelope: the tool ran, or the payload says it failed
Results == {[isError |-> FALSE, data |-> "payload"],
            [isError |-> TRUE, data |-> "tool failed"]}
NoResult == [isError |-> FALSE, data |-> "none"]

\* what comes back for one posted request
Replies ==
    {[kind |-> "no_response", status |-> 0, has_error |-> FALSE, result |-> NoResult],
     [kind |-> "response", status |-> 500, has_error |-> FALSE, result |-> NoResult],
     [kind |-> "response", status |-> 200, has_error |-> TRUE, result |-> NoResult]}
    \cup {[kind |-> "response", status |-> 200, has_error |-> FALSE, result |-> r] :
            r \in Results}
OkReplies == {r \in Replies : r.kind = "response" /\ r.status = 200 /\ ~r.has_error
                              /\ ~r.result.isError}

\* a reply that stands for "no request was posted"
NoReply == [kind |-> "none", status |-> 0, has_error |-> FALSE, result |-> NoResult]

Raise(e) == [raised |-> TRUE, error |-> e, value |-> NoResult]
Return(v) == [raised |-> FALSE, error |-> "", value |-> v]

---------------------------------------------------------------------------
(* MCPClient *)

get_next_request_id_no_increment(counter) == counter

\* _get_next_request_id: the value of the counter after the increment
get_next_request_id(counter) == counter + 1

\* _ensure_session: a session is created when there is none or it is closed
ensure_session(s) == IF s = "none" \/ s = "closed" THEN "open" ELSE s

\* the request posted by connect_server, list_tools and call_tool
Post(server_name, method) ==
    /\ request_id_counter' = get_next_request_id(request_id_counter)
    /\ sent' = Append(sent, [id |-> get_next_request_id(request_id_counter),
                             server |-> server_name, method |-> method])

\* what the body of the try block makes of the reply (connect, list, call alike)
reply_outcome_one_error(reply) ==
    IF reply.kind = "no_response" \/ reply.status # 200 \/ reply.has_error
    THEN Raise("mcp_error")
    ELSE Return(reply.result)

reply_outcome(reply) ==
    IF reply.kind = "no_response" THEN Raise("transport")
    ELSE IF reply.status # 200 THEN Raise("http_status")
    ELSE IF reply.has_error THEN Raise("mcp_error")
    ELSE Return(reply.result)

\* call_tool / list_tools as seen by the caller
call_outcome(server_name, reply) ==
    IF server_name \notin DOMAIN connected_servers
    THEN Raise("not_connected")
    ELSE reply_outcome(reply)

ClientRequest_send_first(server_name, method) ==
    /\ session' = ensure_session(session)
    /\ Post(server_name, method)
    /\ UNCHANGED <<connected_servers, dropped>>

\* the effect of call_tool / list_tools on the client
ClientRequest(server_name, method) ==
    IF server_name \notin DOMAIN connected_servers
    THEN UNCHANGED clientVars
    ELSE /\ session' = ensure_session(session)
         /\ Post(server_name, method)
         /\ UNCHANGED <<connected_servers, dropped>>

\* init_response.get("result", {}).get("capabilities", {}) and the same for
\* "serverInfo": two different parts of the body of the reply
capabilities_of(result) == <<"capabilities", result.data>>
server_info_of(result) == <<"serverInfo", result.data>>

connection_without_identity(result) ==
    [capabilities |-> capabilities_of(result), server_info |-> <<"serverInfo", "none">>]

\* the entry connect_server stores for a successful handshake
connection(result) ==
    [capabilities |-> capabilities_of(result), server_info |-> server_info_of(result)]

\* the record of one client operation: what was called, with which reply of the
\* network, how it ended, and the operation before it
Called(op, server_name, reply, out) ==
    [op |-> op, server |-> server_name, reply |-> reply, out |-> out,
     prev |-> last_call.op]

connect_server(server_name, reply) ==
    /\ request_id_counter < MaxRequests
    /\ session' = ensure_session(session)
    /\ Post(server_name, "initialize")
    /\ connected_servers' =
         IF reply_outcome(reply).raised
         THEN connected_servers
         ELSE [n \in DOMAIN connected_servers \cup {server_name} |->
                 IF n = server_name
                 THEN connection(reply.result)
                 ELSE connected_servers[n]]
    /\ last_call' = Called("connect_server", server_name, reply, reply_outcome(reply))
    /\ UNCHANGED <<dropped>>

\* list_tools, as many times as the caller likes
list_tools_request(server_name, reply) ==
    /\ ClientRequest(server_name, "tools/list")
    /\ last_call' = Called("list_tools", server_name, reply,
                           call_outcome(server_name, reply))

list_tools(server_name, reply) ==
    /\ request_id_counter < MaxRequests
    /\ list_tools_request(server_name, reply)

call_tool(server_name, reply) ==
    /\ request_id_counter < MaxRequests
    /\ ClientRequest(server_name, "tools/call")
    /\ last_call' = Called("call_tool", server_name, reply,
                           call_outcome(server_name, reply))

remove_nothing(cs, server_name) == cs

\* del self.connected_servers[server_name], guarded by the membership test
remove(cs, server_name) == [n \in DOMAIN cs \ {server_name} |-> cs[n]]

disconnect_server(server_name) ==
    /\ connected_servers' = remove(connected_servers, server_name)
    /\ dropped' = dropped \cup (DOMAIN connected_servers \cap {server_name})
    /\ last_call' = Called("disconnect_server", server_name, NoReply, Return(NoResult))
    /\ UNCHANGED <<session, request_id_counter, sent>>

counter_after_disconnect_reset(counter) == 0

\* disconnect_all leaves the counter alone
counter_after_disconnect(counter) == counter

close_session_unguarded(s) ==
    IF s = "none" THEN [session |-> s, raised |-> TRUE]
    ELSE [session |-> "closed", raised |-> FALSE]

\* if self.session and not self.session.closed: await self.session.close()
close_session(s) ==
    [session |-> IF s = "open" THEN "closed" ELSE s, raised |-> FALSE]

disconnect_all ==
    /\ connected_servers' = EmptyDict
    /\ dropped' = dropped \cup DOMAIN connected_servers
    /\ session' = close_session(session).session
    /\ request_id_counter' = counter_after_disconnect(request_id_counter)
    /\ last_call' = Called("disconnect_all", <<>>, NoReply,
                           IF close_session(session).raised
                           THEN Raise("session") ELSE Return(NoResult))
    /\ UNCHANGED <<sent>>

\* no operation of the client yet
NoCall == [op |-> "none", server |-> <<>>, reply |-> NoReply,
           out |-> Return(NoResult), prev |-> "none"]

\* no server process, no task and no agent around the client
Alone ==
    /\ handled = <<>> /\ srv_session = "none"
    /\ tasks = <<>>
    /\ spc = "off" /\ cursor = 0 /\ available_tools = <<>>
    /\ initialized = FALSE /\ listed = <<>>

\* no investigation is modelled
AgentOff ==
    /\ pc = "off" /\ iteration = 0 /\ messages = <<>> /\ content = <<>>
    /\ idx = 0 /\ results = <<>> /\ outcome = [kind |-> "none", text |-> <<>>]
    /\ calls = <<>> /\ dispatched = <<>> /\ notes = <<>>

\* no catalog given, no name under way, no second investigation, no webhook
NoNaming == [stage |-> "none", server |-> <<>>, tool |-> <<>>, prefixed |-> <<>>,
             called |-> FALSE, call_server |-> <<>>, call_tool |-> <<>>]
ExtraIdle == given = <<>> /\ naming = NoNaming /\ convs = <<>> /\ webhooks = <<>>

AgentIdle == AgentOff /\ Alone /\ ExtraIdle

ClientInitFromOne ==
    /\ connected_servers = EmptyDict
    /\ session = "none"
    /\ request_id_counter = 1
    /\ sent = <<>>
    /\ dropped = {}
    /\ last_call = NoCall
    /\ AgentIdle

\* MCPClient.__init__
ClientInit ==
    /\ connected_servers = EmptyDict
    /\ session = "none"
    /\ request_id_counter = 0
    /\ sent = <<>>
    /\ dropped = {}
    /\ last_call = NoCall
    /\ AgentIdle

ClientNext ==
    \/ \E n \in Servers, r \in Replies :
          connect_server(n, r) /\ UNCHANGED nonClientVars
    \/ \E n \in Servers, r \in Replies :
          list_tools(n, r) /\ UNCHANGED nonClientVars
    \/ \E n \in Servers, r \in Replies :
          call_tool(n, r) /\ UNCHANGED nonClientVars
    \/ \E n \in Servers : disconnect_server(n) /\ UNCHANGED nonClientVars
    \/ disconnect_all /\ UNCHANGED nonClientVars

ClientSpec == ClientInit /\ [][ClientNext]_vars

---------------------------------------------------------------------------
(* The language model, as the loop sees it *)

NoId == <<0, 0>>
TextBlock(t) == [type |-> "text", text |-> t, id |-> NoId, name |-> <<>>]
ToolUse(id, name) == [type |-> "tool_use", text |-> "", id |-> id, name |-> name]

\* names the model may ask for: a catalog name whose tool part holds the
\* separator, a name without separator, a name of an unknown server
ToolUseNames == {<<"grafana", Sep, "query", Sep, "range">>,
                 <<"ping">>,
                 <<"jira", Sep, "get">>}
BlockKinds == ToolUseNames \cup {<<"text">>}

\* the content blocks of a response that asks for tools: block i of the c-th
\* model-completion call has the identifier <<c, i>>
MakeContent(c, kinds) ==
    [i \in 1..Len(kinds) |->
        IF kinds[i] = <<"text">> THEN TextBlock("thinking aloud")
        ELSE ToolUse(<<c, i>>, kinds[i])]

ToolUses(blocks) == SelectSeq(blocks, LAMBDA b : b.type = "tool_use")

\* every content with 1..n tool_use blocks, led by a text block or not
ToolContents(c, n) ==
    {b \in {MakeContent(c, k) : k \in UNION {[1..m -> BlockKinds] : m \in 1..(n + 1)}} :
        /\ Len(ToolUses(b)) \in 1..n
        /\ \A i \in 2..Len(b) : b[i].type = "tool_use"}

\* the content of a response without tool_use block
TextContents ==
    {[i \in 1..m |-> TextBlock(IF i = 1 THEN "report" ELSE "appendix")] :
        m \in 0..MaxTextBlocks}

Message(stop_reason, blocks) ==
    [kind |-> "message", stop_reason |-> stop_reason, content |-> blocks]
ApiError == [kind |-> "error", stop_reason |-> "", content |-> <<>>]

\* tool_use blocks the model has produced so far in this conversation
BlocksUsed ==
    LET turns == SelectSeq(messages, LAMBDA m : m.role = "assistant")
        Sum[i \in 0..Len(turns)] ==
            IF i = 0 THEN 0 ELSE Sum[i - 1] + Len(ToolUses(turns[i].content))
    IN  Sum[Len(turns)]

\* a response cut inside its first block, a tool_use block
Truncated(c) == {MakeContent(c, <<<<"grafana", Sep, "query", Sep, "range">>>>)}

\* what messages.create may give on the c-th call: it raises, it asks for tools,
\* it answers, or it is cut at max_tokens inside a tool_use block
Responses(c) ==
    {ApiError}
    \cup {Message("tool_use", b) : b \in ToolContents(c, MaxToolCalls - BlocksUsed)}
    \cup {Message("end_turn", b) : b \in TextContents}
    \cup {Message("max_tokens", b) : b \in Truncated(c)}

---------------------------------------------------------------------------
(* AutonomousIncidentAgent *)

max_iterations == 20
max_retries == 3

json_dumps(v) == [fmt |-> "json", val |-> v]
error_text(e) == [fmt |-> "text", val |-> <<"Error executing tool: ", e>>]
create_investigation_prompt(alert_id) == [fmt |-> "prompt", val |-> alert_id]

Turn(role, c) == [role |-> role, content |-> c]

add_turn_in_place(msgs, turn) ==
    IF msgs = <<>> THEN <<turn>> ELSE [msgs EXCEPT ![Len(msgs)] = turn]

\* messages.append({"role": ..., "content": ...})
add_turn(msgs, turn) == Append(msgs, turn)

\* tool_name.split('_', 1)
split1(name) ==
    IF \A i \in 1..Len(name) : name[i] # Sep
    THEN <<name>>
    ELSE LET i == CHOOSE k \in 1..Len(name) :
                      name[k] = Sep /\ \A j \in 1..(k - 1) : name[j] # Sep
         IN  <<SubSeq(name, 1, i - 1), SubSeq(name, i + 1, Len(name))>>

tool_result_swallowed(tool_use_id, out) ==
    [type |-> "tool_result",
     tool_use_id |-> tool_use_id,
     content |-> json_dumps(out.value)]

\* the entry appended to results for one tool_use block
tool_result(tool_use_id, out) ==
    [type |-> "tool_result",
     tool_use_id |-> tool_use_id,
     content |-> IF out.raised THEN error_text(out.error) ELSE json_dumps(out.value)]

append_result_skip_failed(rs, tool_use_id, out) ==
    IF out.raised THEN rs ELSE Append(rs, tool_result(tool_use_id, out))

\* results.append(...) of the try branch and of the except branch
append_result(rs, tool_use_id, out) == Append(rs, tool_result(tool_use_id, out))

loop_continues_off_by_one(i) == i <= max_iterations

\* the test of the while loop
loop_continues(i) == i < max_iterations

should_raise_late(i) == i > max_retries

\* the except branch of the loop: raise or go on
should_raise(i) == i >= max_retries

final_response_last(blocks) ==
    IF blocks # <<>> THEN <<blocks[Len(blocks)].text>> ELSE <<"Analysis completed">>

\* final_response of the else branch
final_response(blocks) ==
    IF blocks # <<>> THEN <<blocks[1].text>> ELSE <<"Analysis completed">>

LimitRaised == [kind |-> "error", text |-> <<"iteration limit exceeded">>]

\* the return after the while loop
LimitReached == [kind |-> "returned", text |-> <<"Analysis completed (reached iteration limit)">>]

\* process_incident_async calls analyze_incident, which builds the first turn
StartAnalysis ==
    /\ pc = "start"
    /\ messages' = <<Turn("user", create_investigation_prompt("A1"))>>
    /\ pc' = "loop"
    /\ UNCHANGED <<iteration, content, idx, results, outcome, calls, dispatched, notes>>
    /\ UNCHANGED clientVars

LoopTest ==
    /\ pc = "loop"
    /\ IF loop_continues(iteration)
       THEN /\ iteration' = iteration + 1
            /\ pc' = "create"
            /\ UNCHANGED outcome
       ELSE /\ outcome' = LimitReached
            /\ pc' = "notify"
            /\ UNCHANGED iteration
    /\ UNCHANGED <<messages, content, idx, results, calls, dispatched, notes>>
    /\ UNCHANGED clientVars

\* the except branch of the loop for the error e
LoopExcept(e) ==
    IF should_raise(iteration)
    THEN /\ outcome' = [kind |-> "error", text |-> <<e>>]
         /\ pc' = "failed"
    ELSE /\ pc' = "loop"
         /\ UNCHANGED outcome

conversation_after_failure_noted(msgs) == Append(msgs, Turn("assistant", <<>>))

\* messages.create raised: the except branch is reached before any append
conversation_after_failure(msgs) == msgs

ModelCompletion(resps) ==
    /\ pc = "create"
    /\ \E r \in resps :
         IF r.kind = "error"
         THEN /\ calls' = Append(calls, "failed")
              /\ LoopExcept("api error")
              /\ messages' = conversation_after_failure(messages)
              /\ UNCHANGED <<content, idx, results, dispatched>>
         ELSE /\ calls' = Append(calls, r.stop_reason)
              /\ messages' = add_turn(messages, Turn("assistant", r.content))
              /\ IF r.stop_reason = "tool_use"
                 THEN /\ content' = r.content
                      /\ idx' = 1
                      /\ results' = <<>>
                      /\ dispatched' = <<>>
                      /\ pc' = "tools"
                      /\ UNCHANGED outcome
                 ELSE /\ IF r.content # <<>> /\ r.content[1].type # "text"
                         THEN LoopExcept("no attribute text")
                         ELSE /\ outcome' = [kind |-> "returned",
                                             text |-> final_response(r.content)]
                              /\ pc' = "notify"
                      /\ UNCHANGED <<content, idx, results, dispatched>>
    /\ UNCHANGED <<iteration, notes>>
    /\ UNCHANGED clientVars

next_block_abort(i, n, rs) ==
    IF rs # <<>> /\ rs[Len(rs)].content.fmt = "text" THEN n + 1 ELSE i + 1

\* the for loop of _execute_tool_calls goes on to the next block, whatever the
\* results so far
next_block(i, n, rs) == i + 1

\* one round of the for loop of _execute_tool_calls
ExecuteToolCall(replies) ==
    /\ pc = "tools"
    /\ idx <= Len(content)
    /\ LET block == content[idx] IN
         IF block.type # "tool_use"
         THEN UNCHANGED <<results, dispatched>> /\ UNCHANGED clientVars
         ELSE \E reply \in replies :
                LET parts == split1(block.name)
                    out == IF Len(parts) # 2 THEN Raise("unpack")
                           ELSE call_outcome(parts[1], reply)
                IN  /\ results' = append_result(results, block.id, out)
                    /\ dispatched' = Append(dispatched,
                                            [id |-> block.id, name |-> block.name, out |-> out])
                    /\ IF Len(parts) # 2 THEN UNCHANGED clientVars
                       ELSE ClientRequest(parts[1], "tools/call")
    /\ idx' = next_block(idx, Len(content), results')
    /\ UNCHANGED <<pc, iteration, messages, content, outcome, calls, notes>>

\* the return of _execute_tool_calls and the feedback turn of the loop
FeedBack ==
    /\ pc = "tools"
    /\ idx > Len(content)
    /\ messages' = add_turn(messages, Turn("user", json_dumps(results)))
    /\ pc' = "loop"
    /\ UNCHANGED <<iteration, content, idx, results, outcome, calls, dispatched, notes>>
    /\ UNCHANGED clientVars

\* update_opsgenie_ticket: one add_note invocation; it raises what call_tool raises
update_opsgenie_ticket(kind, reply) ==
    /\ notes' = Append(notes, [kind |-> kind,
                               raised |-> call_outcome(<<"opsgenie">>, reply).raised])
    /\ ClientRequest(<<"opsgenie">>, "tools/call")

\* analyze_incident after the loop has returned
UpdateTicket ==
    /\ pc = "notify"
    /\ \E reply \in Replies :
         /\ update_opsgenie_ticket("report", reply)
         /\ pc' = IF call_outcome(<<"opsgenie">>, reply).raised THEN "failed" ELSE "done"
    /\ UNCHANGED <<iteration, messages, content, idx, results, outcome, calls, dispatched>>

task_after_notice_propagates(raised) == IF raised THEN "escaped" ELSE "done"

\* except Exception as notify_error: logged, and process_incident_async returns
task_after_notice(raised) == "done"

\* the except branch of process_incident_async
FailureNotice ==
    /\ pc = "failed"
    /\ \E reply \in Replies :
         /\ update_opsgenie_ticket("failure", reply)
         /\ pc' = task_after_notice(call_outcome(<<"opsgenie">>, reply).raised)
    /\ UNCHANGED <<iteration, messages, content, idx, results, outcome, calls, dispatched>>

\* the client after AutonomousIncidentAgent.initialize has succeeded: two
\* handshakes, then one tools/list per server
ClientStarted ==
    /\ connected_servers = [n \in Servers |-> connection(CHOOSE r \in Results : ~r.isError)]
    /\ session = "open"
    /\ sent = [i \in 1..(2 * Len(mcp_servers)) |->
                 IF i <= Len(mcp_servers)
                 THEN [id |-> i, server |-> mcp_servers[i], method |-> "initialize"]
                 ELSE [id |-> i, server |-> mcp_servers[i - Len(mcp_servers)],
                       method |-> "tools/list"]]
    /\ request_id_counter = 2 * Len(mcp_servers)
    /\ dropped = {}
    /\ last_call = NoCall

\* the agent after initialize, with the catalog of one tool per server
AgentStarted ==
    /\ handled = <<>> /\ srv_session = "none"
    /\ tasks = <<>>
    /\ spc = "ready" /\ cursor = 0
    /\ available_tools = [i \in 1..Len(mcp_servers) |->
                            [name |-> <<"tool">>, server |-> mcp_servers[i],
                             server_name |-> server_title(mcp_servers[i])]]
    /\ initialized = TRUE
    /\ listed = <<>>

Init ==
    /\ ClientStarted
    /\ AgentStarted
    /\ ExtraIdle
    /\ pc = "start" /\ iteration = 0 /\ messages = <<>> /\ content = <<>>
    /\ idx = 0 /\ results = <<>> /\ outcome = [kind |-> "none", text |-> <<>>]
    /\ calls = <<>> /\ dispatched = <<>> /\ notes = <<>>

Next ==
    \/ StartAnalysis /\ UNCHANGED historyVars
    \/ LoopTest /\ UNCHANGED historyVars
    \/ ModelCompletion(Responses(Len(calls) + 1)) /\ UNCHANGED historyVars
    \/ ExecuteToolCall(Replies) /\ UNCHANGED historyVars
    \/ FeedBack /\ UNCHANGED historyVars
    \/ UpdateTicket /\ UNCHANGED historyVars
    \/ FailureNotice /\ UNCHANGED historyVars

Spec == Init /\ [][Next]_vars

\* the model asks for one fixed batch and every tool call of the loop succeeds
PlainResponses(c) ==
    {ApiError,
     Message("tool_use",
             MakeContent(c, <<<<"text">>, <<"grafana", Sep, "query", Sep, "range">>>>))}
    \cup {Message("max_tokens", b) : b \in Truncated(c)}
    \cup {Message("end_turn", b) : b \in TextContents}

CapNext ==
    \/ StartAnalysis /\ UNCHANGED historyVars
    \/ LoopTest /\ UNCHANGED historyVars
    \/ ModelCompletion(PlainResponses(Len(calls) + 1)) /\ UNCHANGED historyVars
    \/ ExecuteToolCall(OkReplies) /\ UNCHANGED historyVars
    \/ FeedBack /\ UNCHANGED historyVars
    \/ UpdateTicket /\ UNCHANGED historyVars
    \/ FailureNotice /\ UNCHANGED historyVars

CapSpec == Init /\ [][CapNext]_vars

LiveCapSpec == CapSpec /\ WF_vars(CapNext)

---------------------------------------------------------------------------
(* Claims about the investigation loop *)

Last(s) == s[Len(s)]
AllToolUse == \A i \in 1..Len(calls) : calls[i] = "tool_use"
LoopEnded == outcome.kind # "none"

\* the result r is the error payload of the failure recorded in d
ReportsFailure(r, d) ==
    /\ r.tool_use_id = d.id
    /\ IF d.out.raised
       THEN /\ r.content.fmt = "text"
            /\ r.content.val = <<"Error executing tool: ", d.out.error>>
       ELSE /\ r.content.fmt = "json"
            /\ r.content.val = d.out.value

Failed(d) == d.out.raised \/ d.out.value.isError

\* C1: a failed tool invocation never ends the loop. While a batch is executed
\* the only next positions are the batch itself and the loop test; when the batch
\* ends, the turn appended right after the model turn is a feedback turn that
\* holds, for every failed invocation of the batch, a result with the request's
\* identifier and the error as payload; and from the loop test below the cap the
\* next step is a model-completion call.
C1_ToolFailureNeverEndsLoop ==
    [][/\ pc = "tools" =>
            \/ pc' = "tools" /\ messages' = messages /\ outcome' = outcome
            \/ /\ pc' = "loop"
               /\ outcome' = outcome
               /\ Last(messages).role = "assistant"
               /\ Len(messages') = Len(messages) + 1
               /\ SubSeq(messages', 1, Len(messages)) = messages
               /\ Last(messages').role = "user"
               /\ Last(messages').content.fmt = "json"
               /\ \A j \in 1..Len(dispatched) :
                     Failed(dispatched[j]) =>
                        \E k \in 1..Len(Last(messages').content.val) :
                           ReportsFailure(Last(messages').content.val[k], dispatched[j])
       /\ (pc = "loop" /\ iteration < 20) => (pc' = "create" /\ outcome' = outcome)
      ]_vars

\* C1 witness: a batch with a failed invocation was fed back and the loop has
\* issued the next model-completion call
C1_Witness ==
    /\ Len(calls) >= 2
    /\ calls[1] = "tool_use"
    /\ \E j \in 1..Len(dispatched) : dispatched[j].out.raised
    /\ Len(messages) >= 3
    /\ messages[3].role = "user"
    /\ \E k \in 1..Len(messages[3].content.val) :
          messages[3].content.val[k].content.fmt = "text"

\* C2: every feedback turn answers the tool_use blocks of the model turn before
\* it one for one: N requests give N results, the j-th result carries the
\* identifier of the j-th request, and the results of the batch just executed are
\* those of the invocations made for these requests, failed or not.
C2_FeedbackMatchesRequests ==
    /\ \A k \in 2..Len(messages) :
          messages[k].role = "user" =>
             LET req == ToolUses(messages[k - 1].content)
                 res == messages[k].content.val
             IN  /\ messages[k - 1].role = "assistant"
                 /\ Len(req) >= 1
                 /\ Len(res) = Len(req)
                 /\ \A j \in 1..Len(req) :
                       /\ res[j].type = "tool_result"
                       /\ res[j].tool_use_id = req[j].id
    /\ (Len(messages) >= 2 /\ Last(messages).role = "user") =>
          LET res == Last(messages).content.val
          IN  /\ Len(res) = Len(dispatched)
              /\ \A j \in 1..Len(dispatched) : ReportsFailure(res[j], dispatched[j])

\* C2 witness: a feedback turn for a model turn with a text block and two
\* requests, one that failed and one that succeeded
C2_Witness ==
    /\ Len(messages) >= 3
    /\ Last(messages).role = "user"
    /\ Len(messages[Len(messages) - 1].content) > Len(dispatched)
    /\ Len(dispatched) = 2
    /\ \E i, j \in 1..2 : dispatched[i].out.raised /\ ~dispatched[j].out.raised
    /\ Len(Last(messages).content.val) = 2

\* C3: whenever three model-completion calls in a row have failed, the third of
\* them is the last call of the run and the loop has ended with the error raised.
C3_ThreeFailuresEndLoop ==
    \A i \in 1..(Len(calls) - 2) :
       (calls[i] = "failed" /\ calls[i + 1] = "failed" /\ calls[i + 2] = "failed") =>
          /\ i + 2 = Len(calls)
          /\ outcome.kind = "error"
          /\ pc \in {"failed", "done"}

\* C3 witness: the first three calls failed and the run is over
C3_Witness ==
    /\ calls = <<"failed", "failed", "failed">>
    /\ pc = "done"

\* an iteration that ended in the except branch: the call failed, or the
\* response could not be read
Excepted(c) == c \in {"failed", "max_tokens"}

\* C4: the loop aborts only when the three most recent model-completion steps
\* all failed, so after a failure that follows a successful call the loop has
\* not aborted.
C4_AbortOnlyAfterThreeFailures ==
    outcome.kind = "error" =>
       /\ Len(calls) >= 3
       /\ \A i \in (Len(calls) - 2)..Len(calls) : Excepted(calls[i])

\* C5: when every model response asks for tools and no call fails, the loop ends
\* only after 20 calls, never issues a 21st, and ends by returning the
\* iteration-limit text.
C5_CapReturnsLimitOutcome ==
    AllToolUse =>
       /\ Len(calls) <= 20
       /\ LoopEnded =>
             /\ Len(calls) = 20
             /\ outcome.kind = "returned"
             /\ outcome.text = <<"Analysis completed (reached iteration limit)">>

\* C5 witness: the run is over after 20 calls that all asked for tools
C5_Witness ==
    /\ AllToolUse
    /\ Len(calls) = 20
    /\ LoopEnded
    /\ pc = "done"

\* C6: when the incident is done, exactly one notification has been issued, and
\* it is the failure notice when the loop aborted.
C6_ExactlyOneNotification ==
    pc = "done" =>
       /\ Len(notes) = 1
       /\ outcome.kind = "error" => notes[1].kind = "failure"

\* the calls are k tool_use responses followed by one response without request
ToolsThenAnswer ==
    /\ calls # <<>>
    /\ Last(calls) = "end_turn"
    /\ \A i \in 1..(Len(calls) - 1) : calls[i] = "tool_use"

TextOf(blocks) == [i \in 1..Len(blocks) |-> blocks[i].text]

\* C7 as stated: after k tool-requesting responses and one answer the loop has
\* returned, after k + 1 calls, the textual content of the answer.
C7_OutcomeIsTextualContent ==
    ToolsThenAnswer =>
       /\ outcome.kind = "returned"
       /\ iteration = Len(calls)
       /\ Len(messages) = 2 * Len(calls)
       /\ outcome.text = TextOf(Last(messages).content)

\* C7 amended: after k tool-requesting responses (k < 20) and one answer the
\* loop has returned after exactly k + 1 calls, and its outcome is the text of
\* the first content block of the answer, or "Analysis completed" when the
\* answer has no content block.
C7_OutcomeIsFirstBlockOrDefault ==
    /\ \A i \in 1..(Len(calls) - 1) : calls[i] # "end_turn"
    /\ ToolsThenAnswer =>
          /\ outcome.kind = "returned"
          /\ pc \in {"notify", "failed", "done"}
          /\ iteration = Len(calls)
          /\ Len(calls) <= 20
          /\ Len(messages) = 2 * Len(calls)
          /\ LET answer == Last(messages).content
             IN  outcome.text = IF answer = <<>> THEN <<"Analysis completed">>
                                ELSE <<answer[1].text>>

\* C7 witness: one tool-requesting response, then an answer of two text blocks,
\* returned after two calls
C7_Witness ==
    /\ calls = <<"tool_use", "end_turn">>
    /\ Len(Last(messages).content) = 2
    /\ outcome = [kind |-> "returned", text |-> <<"report">>]

\* C8: the loop ends, whatever the model answers and whichever calls fail; every
\* call, failed or not, takes one iteration, and there are at most 20 calls.
C8_LoopTerminatesWithinCap ==
    /\ [](Len(calls) <= 20)
    /\ [](iteration = Len(calls) + (IF pc = "create" THEN 1 ELSE 0))
    /\ <>(pc = "done")

\* C8 witness: a run with a failed call that used all 20 iterations
C8_Witness ==
    /\ pc = "done"
    /\ Len(calls) = 20
    /\ \E i \in 1..Len(calls) : calls[i] = "failed"

---------------------------------------------------------------------------
(* Claims about the correlation identifiers of the client *)

\* C9: the identifiers of the requests sent to one server increase strictly in
\* issue order, and no identifier is issued twice by the client.
C9_IdsIncreaseAndNeverRepeat ==
    \A i, j \in 1..Len(sent) :
       i < j =>
          /\ sent[i].id # sent[j].id
          /\ sent[i].server = sent[j].server => sent[i].id < sent[j].id

\* C9 witness: a server was disconnected and connected again, and requests were
\* sent to it before and after
C9_Witness ==
    \E s \in dropped :
       /\ s \in DOMAIN connected_servers
       /\ Len(sent) >= 3
       /\ Last(sent) = [id |-> Len(sent), server |-> s, method |-> "tools/call"]
       /\ Cardinality({i \in 1..Len(sent) :
                          sent[i].server = s /\ sent[i].method = "initialize"}) >= 2

FirstTo(s) == CHOOSE i \in 1..Len(sent) :
                 sent[i].server = s /\ \A j \in 1..(i - 1) : sent[j].server # s

\* C10 as stated: the first request sent to each server is its handshake and
\* carries the identifier 1.
C10_FirstRequestPerServerIsOne ==
    \A s \in Servers :
       (\E i \in 1..Len(sent) : sent[i].server = s) =>
          /\ sent[FirstTo(s)].method = "initialize"
          /\ sent[FirstTo(s)].id = 1

\* C10 amended: the counter belongs to the client, not to a connection: the
\* n-th request of the client carries the identifier n whichever server it goes
\* to, so the handshake of a server carries 1 only when it is the first request
\* of the client; the first request to each server is its handshake.
C10_NthRequestOfClientIsN ==
    /\ \A i \in 1..Len(sent) : sent[i].id = i
    /\ request_id_counter = Len(sent)
    /\ \A s \in Servers :
          (\E i \in 1..Len(sent) : sent[i].server = s) =>
             /\ sent[FirstTo(s)].method = "initialize"
             /\ sent[FirstTo(s)].id = 1 <=> FirstTo(s) = 1

\* C10 witness: the handshake of a second server is the second request of the
\* client and carries the identifier 2
C10_Witness ==
    /\ Len(sent) >= 2
    /\ sent[1].method = "initialize"
    /\ sent[2].method = "initialize"
    /\ sent[1].server # sent[2].server
    /\ sent[2].id = 2

----------------------------------------------------------------------------
(* The capability server: OpsGenieMCPServer behind its /mcp endpoint *)

\* the largest id of a request in the specification of the server alone; the
\* id 0 stands for a request without id
MaxId == 1
\* requests the server handles in the specification of the server alone
MaxHandled == 2

\* the codes handle_mcp_request puts into error responses
MethodNotFound == -32601
InternalError == -32603

\* the names of self.tools
registry == <<"add_note", "get_alert", "update_alert_priority", "add_tags">>
Registered == {registry[i] : i \in 1..Len(registry)}

routes_without_add_tags == {"add_note", "get_alert", "update_alert_priority"}

\* the names of the if / elif chain of _handle_tools_call
routes == {"add_note", "get_alert", "update_alert_priority", "add_tags"}

\* the keys the handler of a tool reads from its arguments
required(tool_name) ==
    CASE tool_name = "add_note" -> {"alert_id", "note"}
      [] tool_name = "get_alert" -> {"alert_id"}
      [] tool_name = "update_alert_priority" -> {"alert_id", "priority"}
      [] tool_name = "add_tags" -> {"alert_id", "tags"}

\* the statuses of the OpsGenie API the handler of a tool takes for a success
accepted(tool_name) ==
    CASE tool_name = "add_note" -> {200, 201, 202}
      [] tool_name = "get_alert" -> {200}
      [] tool_name = "update_alert_priority" -> {200, 202}
      [] tool_name = "add_tags" -> {200, 202}

\* what the OpsGenie API answers to a handler: a status, or 0 for no answer
Backends == {0, 200, 201, 500}

NoServerResult == [kind |-> "none", body |-> <<>>]
NoError == [code |-> 0, message |-> <<>>]
NoResponse == [id |-> 0, has_result |-> FALSE, result |-> NoServerResult,
               has_error |-> FALSE, error |-> NoError]

result_response_without_id(request_id, result) ==
    [id |-> 0, has_result |-> TRUE, result |-> result,
     has_error |-> FALSE, error |-> NoError]

\* a response with a result member
result_response(request_id, result) ==
    [id |-> request_id, has_result |-> TRUE, result |-> result,
     has_error |-> FALSE, error |-> NoError]

create_error_response(request_id, code, message) ==
    [id |-> request_id, has_result |-> FALSE, result |-> NoServerResult,
     has_error |-> TRUE, error |-> [code |-> code, message |-> message]]

\* how a coroutine of the server ends: with a response or with an exception
Responds(response) == [raised |-> FALSE, cause |-> <<>>, response |-> response]
Throws(cause) == [raised |-> TRUE, cause |-> cause, response |-> NoResponse]

handle_initialize(request_id) ==
    Responds(result_response(request_id,
        [kind |-> "initialize",
         body |-> <<"2024-11-05", "tools", "opsgenie-mcp-server">>]))

handle_tools_list(request_id) ==
    Responds(result_response(request_id, [kind |-> "tools", body |-> registry]))

\* _add_note, _get_alert, _update_alert_priority, _add_tags: read the
\* arguments, call the OpsGenie API, raise unless the status is accepted
tool_handler(tool_name, arguments, backend) ==
    IF ~(required(tool_name) \subseteq arguments) THEN Throws(<<"KeyError">>)
    ELSE IF backend = 0 THEN Throws(<<"ClientError">>)
    ELSE IF backend \notin accepted(tool_name)
         THEN Throws(<<"OpsGenie API error">>)
    ELSE Responds(NoResponse)

handle_tools_call(request_id, tool_name, arguments, backend) ==
    IF tool_name \in routes
    THEN IF tool_handler(tool_name, arguments, backend).raised
         THEN tool_handler(tool_name, arguments, backend)
         ELSE Responds(result_response(request_id,
                  [kind |-> "content", body |-> <<"text", "json", tool_name>>]))
    ELSE Throws(<<"Unknown tool: ", tool_name>>)

catch_nothing(out, request_id) == out

\* except Exception as e: return self._create_error_response(request_id, -32603, ...)
catch(out, request_id) ==
    IF out.raised
    THEN Responds(create_error_response(request_id, InternalError,
                                        <<"Internal error: ">> \o out.cause))
    ELSE out

handle_mcp_request(request, backend) ==
    catch(IF request.method = "initialize" THEN handle_initialize(request.id)
          ELSE IF request.method = "tools/list" THEN handle_tools_list(request.id)
          ELSE IF request.method = "tools/call"
               THEN handle_tools_call(request.id, request.name, request.arguments,
                                      backend)
          ELSE Responds(create_error_response(request.id, MethodNotFound,
                            <<"Method not found: ", request.method>>)),
          request.id)

\* the tool handler a request runs, "none" if it runs none
handler_of(request) ==
    IF request.method = "tools/call" /\ request.name \in routes
    THEN request.name ELSE "none"

\* one request through the endpoint and handle_mcp_request
HandleRequest(request, backend) ==
    /\ handled' = Append(handled,
          [request |-> request,
           ran |-> handler_of(request),
           failed |-> /\ handler_of(request) # "none"
                      /\ tool_handler(request.name, request.arguments, backend).raised,
           escaped |-> handle_mcp_request(request, backend).raised,
           response |-> handle_mcp_request(request, backend).response])
    /\ srv_session' = IF handler_of(request) # "none" THEN "open" ELSE srv_session

\* the requests of the specification of the server alone
Methods == {"initialize", "tools/list", "tools/call", "resources/list"}
ToolCallNames == {"add_note", "get_alert", "restart_service"}
ToolCallArguments == {{"alert_id", "note"}, {"note"}}
NoParams == [name |-> "", arguments |-> {}]
Request(id, method, params) ==
    [id |-> id, method |-> method, name |-> params.name, arguments |-> params.arguments]
Requests ==
    {Request(id, m, NoParams) : id \in 0..MaxId, m \in Methods \ {"tools/call"}}
    \cup {Request(id, "tools/call", [name |-> n, arguments |-> a]) :
            id \in 0..MaxId, n \in ToolCallNames, a \in ToolCallArguments}

ServerNext ==
    \E request \in Requests, backend \in Backends :
       /\ Len(handled) < MaxHandled
       /\ HandleRequest(request, backend)
       /\ UNCHANGED <<clientVars, agentVars, last_call, taskVars, startVars, extraVars>>

ServerSpec == ClientInit /\ [][ServerNext]_vars

----------------------------------------------------------------------------
(* Claims about the capability server *)

\* an initialize request was handled before the i-th request
ReadyBefore(i) == \E j \in 1..(i - 1) : handled[j].request.method = "initialize"

\* C13: a tools/list or tools/call request handled before any initialize
\* request was answered gets an error response, returns no catalog and runs no
\* tool handler.
C13_OnlyHandshakeBeforeReady ==
    \A i \in 1..Len(handled) :
       (handled[i].request.method \in {"tools/list", "tools/call"} /\ ~ReadyBefore(i))
          => /\ handled[i].response.has_error
             /\ ~handled[i].response.has_result
             /\ handled[i].ran = "none"

\* C14: every request handled gets a response with the id of the request and
\* exactly one of result and error, no exception leaves handle_mcp_request, a
\* failed tool handler gives an error response, and a method the server does
\* not know gives the method-not-found error without a tool handler running.
C14_EveryRequestGetsWellFormedResponse ==
    \A i \in 1..Len(handled) :
       /\ ~handled[i].escaped
       /\ handled[i].response.id = handled[i].request.id
       /\ handled[i].response.has_result # handled[i].response.has_error
       /\ handled[i].failed => handled[i].response.has_error
       /\ handled[i].request.method \notin {"initialize", "tools/list", "tools/call"}
            => /\ handled[i].response.has_error
               /\ handled[i].response.error.code = MethodNotFound
               /\ handled[i].ran = "none"

\* C14 witness: the handler of add_note failed for a request with an id, and
\* the request was answered with an error response carrying that id
C14_Witness ==
    \E i \in 1..Len(handled) :
       /\ handled[i].ran = "add_note"
       /\ handled[i].failed
       /\ handled[i].request.id # 0
       /\ handled[i].response.has_error
       /\ handled[i].response.id = handled[i].request.id

UnknownTool(h) == h.request.method = "tools/call" /\ h.request.name \notin Registered

\* C15: a call of a tool name absent from the registry and a call whose handler
\* failed both get an error response, and the two error codes differ.
C15_UnknownToolAndFailedHandlerDiffer ==
    \A i, j \in 1..Len(handled) :
       (UnknownTool(handled[i]) /\ handled[j].failed)
          => /\ handled[i].response.has_error
             /\ handled[j].response.has_error
             /\ handled[i].response.error.code # handled[j].response.error.code

----------------------------------------------------------------------------
(* Tasks that share the client: investigations of several incidents and
   health checks, interleaved at their await points *)

\* tasks that share the client
NumTasks == 2
\* calls the tasks start, all together
MaxCalls == 2

CapabilityServer == <<"opsgenie">>

\* the HTTP response as the client reads it: status 0 stands for no response
Wire(status, response) ==
    [kind |-> IF status = 0 THEN "no_response" ELSE "response",
     status |-> status, has_error |-> response.has_error,
     result |-> response.result, id |-> response.id]

NoRequest == Request(0, "", NoParams)
IdleTask == [pc |-> "idle", server |-> <<>>, request |-> NoRequest,
             reply |-> Wire(0, NoResponse), out |-> Return(NoServerResult)]

\* what the tasks ask for: list_tools of a health check, call_tool of an
\* investigation with a registered tool, an unknown tool, a tool of the other
\* server
TaskCalls ==
    {[server |-> n, method |-> "tools/list", params |-> NoParams] : n \in Servers}
    \cup {[server |-> CapabilityServer, method |-> "tools/call",
           params |-> [name |-> n, arguments |-> {"alert_id", "note"}]] :
             n \in {"add_note", "restart_service"}}
    \cup {[server |-> <<"grafana">>, method |-> "tools/call",
           params |-> [name |-> "query_range", arguments |-> {}]]}

\* calls started so far
Started ==
    Len(sent) - 2 * Len(mcp_servers)
      + Cardinality({t \in DOMAIN tasks : tasks[t].pc = "entered"})

\* list_tools, call_tool up to `await self._ensure_session()`: the name is
\* connected, the task is past the membership test
TaskEnter(t, c) ==
    /\ tasks[t].pc \in {"idle", "returned"}
    /\ Started < MaxCalls
    /\ c.server \in DOMAIN connected_servers
    /\ tasks' = [tasks EXCEPT ![t] =
                   [IdleTask EXCEPT !.pc = "entered", !.server = c.server,
                                    !.request = Request(0, c.method, c.params)]]
    /\ UNCHANGED <<clientVars, serverVars>>

\* from the session to the POST: the request gets its id and goes out; no
\* await lies between reading the counter and storing it back
TaskSend(t) ==
    /\ tasks[t].pc = "entered"
    /\ session' = ensure_session(session)
    /\ Post(tasks[t].server, tasks[t].request.method)
    /\ tasks' = [tasks EXCEPT ![t].pc = "sent",
                              ![t].request.id = get_next_request_id(request_id_counter)]
    /\ UNCHANGED <<connected_servers, dropped, serverVars>>

\* the capability server handles the request of task t and answers on the
\* connection the request came in on
ServerAnswer(t, backend) ==
    /\ tasks[t].pc = "sent"
    /\ tasks[t].server = CapabilityServer
    /\ HandleRequest(tasks[t].request, backend)
    /\ tasks' = [tasks EXCEPT ![t].pc = "answered",
                   ![t].reply =
                      Wire(IF handle_mcp_request(tasks[t].request, backend).raised
                           THEN 500 ELSE 200,
                           handle_mcp_request(tasks[t].request, backend).response)]
    /\ UNCHANGED clientVars

\* what a server outside this repository may answer: a result or an error, with
\* the id of the request or without, or a status other than 200
OtherReplies(request) ==
    {Wire(200, result_response(i, [kind |-> "content", body |-> <<"text">>])) :
       i \in {0, request.id}}
    \cup {Wire(200, create_error_response(request.id, InternalError, <<>>)),
          Wire(500, NoResponse)}

OtherAnswer(t, reply) ==
    /\ tasks[t].pc = "sent"
    /\ tasks[t].server # CapabilityServer
    /\ tasks' = [tasks EXCEPT ![t].pc = "answered", ![t].reply = reply]
    /\ UNCHANGED <<clientVars, serverVars>>

\* the POST ends without a response (timeout, connection error)
NoAnswer(t) ==
    /\ tasks[t].pc = "sent"
    /\ tasks' = [tasks EXCEPT ![t].pc = "answered", ![t].reply = Wire(0, NoResponse)]
    /\ UNCHANGED <<clientVars, serverVars>>

\* the task resumes with the response of its own POST and returns or raises
TaskReturn(t) ==
    /\ tasks[t].pc = "answered"
    /\ tasks' = [tasks EXCEPT ![t].pc = "returned",
                              ![t].out = reply_outcome(tasks[t].reply)]
    /\ UNCHANGED <<clientVars, serverVars>>

ConcInit ==
    /\ ClientStarted
    /\ AgentOff
    /\ ExtraIdle
    /\ handled = <<>> /\ srv_session = "none"
    /\ tasks = [t \in 1..NumTasks |-> IdleTask]
    /\ spc = "ready" /\ cursor = 0
    /\ available_tools = [i \in 1..Len(mcp_servers) |->
                            [name |-> <<"tool">>, server |-> mcp_servers[i],
                             server_name |-> server_title(mcp_servers[i])]]
    /\ initialized = TRUE
    /\ listed = <<>>

ConcNext ==
    \/ \E t \in DOMAIN tasks, c \in TaskCalls :
          TaskEnter(t, c) /\ UNCHANGED <<agentVars, last_call, startVars, extraVars>>
    \/ \E t \in DOMAIN tasks :
          TaskSend(t) /\ UNCHANGED <<agentVars, last_call, startVars, extraVars>>
    \/ \E t \in DOMAIN tasks, backend \in Backends :
          ServerAnswer(t, backend) /\ UNCHANGED <<agentVars, last_call, startVars, extraVars>>
    \/ \E t \in DOMAIN tasks :
          \E reply \in OtherReplies(tasks[t].request) :
             OtherAnswer(t, reply) /\ UNCHANGED <<agentVars, last_call, startVars, extraVars>>
    \/ \E t \in DOMAIN tasks :
          NoAnswer(t) /\ UNCHANGED <<agentVars, last_call, startVars, extraVars>>
    \/ \E t \in DOMAIN tasks :
          TaskReturn(t) /\ UNCHANGED <<agentVars, last_call, startVars, extraVars>>

ConcSpec == ConcInit /\ [][ConcNext]_vars

----------------------------------------------------------------------------
(* Claims about concurrent use of the client *)

\* the task has a request on the wire or behind it
Issued(t) == tasks[t].pc \in {"sent", "answered", "returned"}

\* C11: whatever the interleaving of the tasks at their await points, no two
\* requests posted by the client carry the same id, and no two tasks hold
\* requests with the same id.
C11_NoTwoRequestsShareAnId ==
    /\ \A i, j \in 1..Len(sent) : i # j => sent[i].id # sent[j].id
    /\ \A t, u \in DOMAIN tasks :
          (t # u /\ Issued(t) /\ Issued(u))
             => tasks[t].request.id # tasks[u].request.id

\* C11 witness: two tasks are past the membership test at the same time, the
\* one that entered call_tool later has posted first, and both requests are
\* in flight
C11_Witness ==
    \E t, u \in DOMAIN tasks :
       /\ t < u
       /\ tasks[t].pc = "sent" /\ tasks[u].pc = "sent"
       /\ tasks[t].request.method = "tools/call"
       /\ tasks[u].request.method = "tools/call"
       /\ tasks[u].request.id < tasks[t].request.id

\* the entries of the log of the server for the request of task t
HandledFor(t) == {i \in 1..Len(handled) : handled[i].request = tasks[t].request}

\* C12: a call to the capability server that got a response returns or raises
\* by the one response the server made for the request of this call: the
\* response carries the id of that request, and the value returned is its
\* result.
C12_CallGetsTheResponseToItsOwnRequest ==
    \A t \in DOMAIN tasks :
       (/\ tasks[t].pc = "returned"
        /\ tasks[t].server = CapabilityServer
        /\ tasks[t].reply.status = 200)
          => /\ tasks[t].reply.id = tasks[t].request.id
             /\ Cardinality(HandledFor(t)) = 1
             /\ \A i \in HandledFor(t) :
                   /\ handled[i].response.id = tasks[t].reply.id
                   /\ handled[i].response.has_error = tasks[t].reply.has_error
                   /\ handled[i].response.result = tasks[t].reply.result
                   /\ tasks[t].out.raised = handled[i].response.has_error
                   /\ ~tasks[t].out.raised
                        => tasks[t].out.value = handled[i].response.result
             /\ \A u \in DOMAIN tasks \ {t} : HandledFor(u) \cap HandledFor(t) = {}

\* C12 witness: two calls of tools of the capability server overlap, the
\* server handles the request posted second first, and both calls have
\* returned
C12_Witness ==
    \E t, u \in DOMAIN tasks :
       /\ tasks[t].pc = "returned" /\ tasks[u].pc = "returned"
       /\ tasks[t].request.method = "tools/call"
       /\ tasks[u].request.method = "tools/call"
       /\ ~tasks[t].out.raised
       /\ tasks[t].request.id < tasks[u].request.id
       /\ \E i \in HandledFor(t), j \in HandledFor(u) : j < i

----------------------------------------------------------------------------
(* Tool names: the prefix of _format_tools_for_claude and the split of
   _execute_tool_calls *)

\* symbols of a server name or of a tool name
MaxNameLen == 2

Symbols == {"a", "b", Sep}
Names == UNION {[1..n -> Symbols] : n \in 0..MaxNameLen}

format_name_without_separator(server_name, tool_name) == server_name \o tool_name

\* f"{tool['server']}_{tool['name']}"
format_name(server_name, tool_name) == server_name \o <<Sep>> \o tool_name

\* tool_name.rsplit('_', 1)
split1_at_last(name) ==
    IF \A i \in 1..Len(name) : name[i] # Sep
    THEN <<name>>
    ELSE LET i == CHOOSE k \in 1..Len(name) :
                      name[k] = Sep /\ \A j \in (k + 1)..Len(name) : name[j] # Sep
         IN  <<SubSeq(name, 1, i - 1), SubSeq(name, i + 1, Len(name))>>

\* server_name, actual_tool_name = tool_name.split('_', 1)
unpack(name) == split1(name)

\* the catalog entry of the tool gets its name for the model
FormatTool ==
    /\ naming.stage = "tool"
    /\ naming' = [naming EXCEPT !.stage = "formatted",
                                !.prefixed = format_name(naming.server, naming.tool)]

\* the model asks for the tool by that name: the name is unpacked and
\* call_tool is invoked with the two parts; a name that does not unpack makes
\* no call
DispatchTool ==
    /\ naming.stage = "formatted"
    /\ naming' = IF Len(unpack(naming.prefixed)) = 2
                 THEN [naming EXCEPT !.stage = "dispatched", !.called = TRUE,
                                     !.call_server = unpack(naming.prefixed)[1],
                                     !.call_tool = unpack(naming.prefixed)[2]]
                 ELSE [naming EXCEPT !.stage = "dispatched"]

NameInit ==
    /\ connected_servers = EmptyDict
    /\ session = "none"
    /\ request_id_counter = 0
    /\ sent = <<>>
    /\ dropped = {}
    /\ last_call = NoCall
    /\ AgentOff
    /\ Alone
    /\ given = <<>> /\ convs = <<>> /\ webhooks = <<>>
    /\ \E server_name \in Names, tool_name \in Names :
          naming = [NoNaming EXCEPT !.stage = "tool", !.server = server_name,
                                    !.tool = tool_name]

NameNext ==
    \/ FormatTool /\ UNCHANGED <<clientVars, agentVars, last_call, serverVars,
                                   taskVars, startVars, given, convs, webhooks>>
    \/ DispatchTool /\ UNCHANGED <<clientVars, agentVars, last_call, serverVars,
                                   taskVars, startVars, given, convs, webhooks>>

NameSpec == NameInit /\ [][NameNext]_vars

----------------------------------------------------------------------------
(* Startup of the agent: AutonomousIncidentAgent.initialize and _discover_tools *)

\* tools one server lists
MaxTools == 2
\* runs of _discover_tools
MaxDiscoveries == 2

\* the tool descriptors a server may list
Tool(name) == [name |-> name]
CatalogNames == {<<"query">>, <<"add", Sep, "note">>}
Catalogs ==
    UNION {[1..n -> {Tool(name) : name \in CatalogNames}] : n \in 0..MaxTools}

\* tool['server'] = server_name; tool['server_name'] = ...
tag(tool, server_name) ==
    [name |-> tool.name, server |-> server_name,
     server_name |-> server_title(server_name)]

catalog_at_start_kept(catalog) == catalog

\* self.available_tools = [] at the start of _discover_tools
catalog_at_start(catalog) == <<>>

catalog_after_failure_cleared(catalog) == <<>>

\* except Exception: log and continue with the next server
catalog_after_failure(catalog) == catalog

\* initialize: the next connect_server of the loop; an exception leaves
\* initialize, the last success enters _discover_tools, which empties the catalog
InitializeConnect(reply) ==
    /\ spc = "connect"
    /\ connect_server(mcp_servers[cursor], reply)
    /\ IF reply_outcome(reply).raised
       THEN spc' = "failed" /\ UNCHANGED <<cursor, available_tools>>
       ELSE IF cursor < Len(mcp_servers)
            THEN cursor' = cursor + 1 /\ UNCHANGED <<spc, available_tools>>
            ELSE /\ spc' = "discover" /\ cursor' = 1
                 /\ available_tools' = catalog_at_start(available_tools)
    /\ UNCHANGED <<initialized, listed>>

\* _discover_tools: list_tools of the next server; its tools are tagged and
\* appended, a failure is skipped; after the last server initialize sets
\* initialized
DiscoverTools(reply, tools) ==
    /\ spc = "discover"
    /\ list_tools_request(mcp_servers[cursor], reply)
    /\ available_tools' =
         IF call_outcome(mcp_servers[cursor], reply).raised
         THEN catalog_after_failure(available_tools)
         ELSE available_tools
                \o [j \in 1..Len(tools) |-> tag(tools[j], mcp_servers[cursor])]
    /\ listed' = Append(listed,
         [server |-> mcp_servers[cursor],
          raised |-> call_outcome(mcp_servers[cursor], reply).raised,
          tools |-> IF call_outcome(mcp_servers[cursor], reply).raised
                    THEN <<>> ELSE tools])
    /\ IF cursor < Len(mcp_servers)
       THEN cursor' = cursor + 1 /\ UNCHANGED <<spc, initialized>>
       ELSE spc' = "ready" /\ initialized' = TRUE /\ UNCHANGED cursor

\* _discover_tools is run again on the started agent and empties the catalog
Rediscover ==
    /\ spc = "ready"
    /\ Len(sent) < Len(mcp_servers) * (1 + MaxDiscoveries)
    /\ spc' = "discover" /\ cursor' = 1
    /\ available_tools' = catalog_at_start(available_tools)
    /\ listed' = <<>>
    /\ UNCHANGED <<initialized, clientVars, last_call>>

\* the names of the catalog as the model gets it
format_tools_for_claude(catalog) ==
    [k \in 1..Len(catalog) |->
       [name |-> format_name(catalog[k].server, catalog[k].name),
        description |-> catalog[k].server_name]]

StartInit ==
    /\ connected_servers = EmptyDict
    /\ session = "none"
    /\ request_id_counter = 0
    /\ sent = <<>>
    /\ dropped = {}
    /\ last_call = NoCall
    /\ AgentOff
    /\ ExtraIdle
    /\ handled = <<>> /\ srv_session = "none"
    /\ tasks = <<>>
    /\ spc = "connect" /\ cursor = 1 /\ available_tools = <<>>
    /\ initialized = FALSE /\ listed = <<>>

StartNext ==
    \/ \E reply \in Replies :
          InitializeConnect(reply) /\ UNCHANGED <<agentVars, serverVars, taskVars, extraVars>>
    \/ \E reply \in Replies, tools \in Catalogs :
          DiscoverTools(reply, tools) /\ UNCHANGED <<agentVars, serverVars, taskVars, extraVars>>
    \/ Rediscover /\ UNCHANGED <<agentVars, serverVars, taskVars, extraVars>>

StartSpec == StartInit /\ [][StartNext]_vars

----------------------------------------------------------------------------
(* Claims about the startup of the agent *)

\* the entries of the catalog that carry the server name s
EntriesOf(s) == SelectSeq(available_tools, LAMBDA e : e.server = s)

\* C20: discovery never fails because list_tools failed; the catalog holds,
\* for every server whose list_tools returned, the tools it listed, in order
\* and tagged with the name of the server, and nothing for a server whose
\* list_tools raised; when discovery is over every configured server was asked.
C20_DiscoverySkipsFailedServers ==
    /\ listed # <<>> => spc # "failed"
    /\ spc = "ready" => (initialized /\ Len(listed) = Len(mcp_servers))
    /\ \A k \in 1..Len(available_tools) :
          \E i \in 1..Len(listed) : listed[i].server = available_tools[k].server
    /\ \A i \in 1..Len(listed) :
          IF listed[i].raised
          THEN EntriesOf(listed[i].server) = <<>>
          ELSE /\ Len(EntriesOf(listed[i].server)) = Len(listed[i].tools)
               /\ \A j \in 1..Len(listed[i].tools) :
                     EntriesOf(listed[i].server)[j].name = listed[i].tools[j].name

\* C20 witness: discovery is over, list_tools returned two tools for the first
\* server and raised for the second, and the catalog holds the two tools
C20_Witness ==
    /\ spc = "ready"
    /\ Len(listed) = 2
    /\ ~listed[1].raised
    /\ Len(listed[1].tools) = 2
    /\ listed[2].raised
    /\ Len(available_tools) = 2
    /\ available_tools[1].server = mcp_servers[1]

\* C21: a handshake that fails during initialize does not make initialize
\* fail: initialize goes on to the other servers and to discovery, and once it
\* is over the agent is initialized and the catalog holds no tool of a server
\* whose handshake failed.
C21_HandshakeFailureDoesNotAbortStartup ==
    (last_call.op = "connect_server" /\ last_call.out.raised)
       => /\ spc # "failed"
          /\ spc = "ready" =>
                /\ initialized
                /\ \A k \in 1..Len(available_tools) :
                      available_tools[k].server \in DOMAIN connected_servers

----------------------------------------------------------------------------
(* Claims about tool names *)

NoSep(name) == \A i \in 1..Len(name) : name[i] # Sep

\* C22 as stated: for any server name and tool name, the prefixed name unpacks
\* into the two names it was built from, and no other pair of names gives the
\* same prefixed name.
C22_PrefixingIsABijection ==
    naming.stage = "dispatched" =>
       /\ naming.called
       /\ naming.call_server = naming.server
       /\ naming.call_tool = naming.tool
       /\ \A server_name \in Names, tool_name \in Names :
             format_name(server_name, tool_name) = naming.prefixed
                => (server_name = naming.server /\ tool_name = naming.tool)

\* C22 amended: the statement holds for server names without the separator:
\* the prefixed name of such a server name and any tool name unpacks into the
\* two names, and no other pair whose server name is without the separator
\* gives the same prefixed name.
C22_PrefixingIsABijectionWithoutSeparator ==
    (naming.stage = "dispatched" /\ NoSep(naming.server)) =>
       /\ naming.called
       /\ naming.call_server = naming.server
       /\ naming.call_tool = naming.tool
       /\ \A server_name \in Names, tool_name \in Names :
             (NoSep(server_name)
              /\ format_name(server_name, tool_name) = naming.prefixed)
                => (server_name = naming.server /\ tool_name = naming.tool)

\* C22 witness: a server name without separator and a tool name went through
\* prefixing and unpacking, and a pair with a separator in the server name
\* gives the same prefixed name
C22_Witness ==
    /\ naming.stage = "dispatched"
    /\ NoSep(naming.server)
    /\ naming.server # <<>>
    /\ naming.call_tool = naming.tool
    /\ \E server_name \in Names, tool_name \in Names :
          /\ server_name # naming.server
          /\ format_name(server_name, tool_name) = naming.prefixed

\* C23: a request named S_T, S without the separator, is dispatched as
\* call_tool(S, T): the name is cut at its first separator, however many
\* separators T holds.
C23_SplitAtFirstSeparatorOnly ==
    (naming.stage = "dispatched" /\ NoSep(naming.server)) =>
       /\ naming.called
       /\ naming.prefixed = naming.call_server \o <<Sep>> \o naming.call_tool
       /\ NoSep(naming.call_server)
       /\ naming.call_server = naming.server
       /\ naming.call_tool = naming.tool

\* C23 witness: the tool name holds the separator twice and was passed whole
\* to call_tool
C23_Witness ==
    /\ naming.stage = "dispatched"
    /\ naming.server = <<"a">>
    /\ naming.tool = <<Sep, Sep>>
    /\ naming.called
    /\ naming.call_tool = <<Sep, Sep>>

\* the names of a list are pairwise distinct
Unique(tools) ==
    \A j, k \in 1..Len(tools) : j # k => tools[j].name # tools[k].name

\* C24: when no server lists a tool name twice, the names of the catalog given
\* to the model are pairwise distinct, during and after every run of
\* _discover_tools.
C24_CatalogNamesAreDistinct ==
    (\A i \in 1..Len(listed) : Unique(listed[i].tools))
       => \A j, k \in 1..Len(available_tools) :
             j # k => format_tools_for_claude(available_tools)[j].name
                        # format_tools_for_claude(available_tools)[k].name

\* C24 witness: _discover_tools has run twice, both servers list the same two
\* tool names, and the catalog holds four entries
C24_Witness ==
    /\ spc = "ready"
    /\ Len(sent) = 3 * Len(mcp_servers)
    /\ Len(listed) = 2
    /\ Len(listed[1].tools) = 2
    /\ Unique(listed[1].tools)
    /\ listed[2].tools = listed[1].tools
    /\ Len(available_tools) = 4

\* C25: a request of a batch that fails does not end the batch. While the
\* batch is executed, every tool_use block passed so far was dispatched and has
\* its own result, in order, whether or not an earlier one failed; the result
\* of a request that raised is the error text of that request, and the feedback
\* turn is built only when every block of the model turn was passed.
C25_FailedRequestDoesNotAbortBatch ==
    pc = "tools" =>
       /\ idx <= Len(content) + 1
       /\ Len(dispatched) = Len(ToolUses(SubSeq(content, 1, idx - 1)))
       /\ Len(results) = Len(dispatched)
       /\ \A j \in 1..Len(dispatched) :
             /\ dispatched[j].id = ToolUses(content)[j].id
             /\ results[j].tool_use_id = dispatched[j].id
             /\ results[j].content =
                  IF dispatched[j].out.raised
                  THEN error_text(dispatched[j].out.error)
                  ELSE json_dumps(dispatched[j].out.value)

\* C25 witness: the first request of a batch of two named a server that is not
\* connected and raised, and the second was dispatched and returned
C25_Witness ==
    /\ pc = "tools"
    /\ idx = Len(content) + 1
    /\ Len(dispatched) = 2
    /\ dispatched[1].out.raised
    /\ dispatched[1].out.error = "not_connected"
    /\ ~dispatched[2].out.raised
    /\ results[1].content.fmt = "text"
    /\ results[2].content.fmt = "json"

\* C26: the conversation only grows at its end: at every step the conversation
\* before is a prefix of the conversation after. A tool-requesting model turn
\* adds the model turn, the execution of its batch adds nothing, and the end of
\* the batch adds one feedback turn right after the model turn: two turns in all.
C26_ConversationIsAppendOnly ==
    [][/\ Len(messages') >= Len(messages)
       /\ SubSeq(messages', 1, Len(messages)) = messages
       /\ (pc = "create" /\ pc' = "tools")
            => /\ Len(messages') = Len(messages) + 1
               /\ Last(messages').role = "assistant"
       /\ pc = "tools" => pc' \in {"tools", "loop"}
       /\ (pc = "tools" /\ pc' = "tools") => messages' = messages
       /\ (pc = "tools" /\ pc' = "loop")
            => /\ Len(messages') = Len(messages) + 1
               /\ Last(messages).role = "assistant"
               /\ Last(messages').role = "user"]_vars

\* C26 witness: two tool-requesting model turns have grown the conversation
\* from the brief to five turns
C26_Witness ==
    /\ Len(calls) = 2
    /\ calls[1] = "tool_use" /\ calls[2] = "tool_use"
    /\ pc = "loop"
    /\ Len(messages) = 5
    /\ messages[2].role = "assistant" /\ messages[3].role = "user"
    /\ messages[4].role = "assistant" /\ messages[5].role = "user"

\* ---- the connection table of the client (C16 to C19) ----

CallOps == {"list_tools", "call_tool"}

\* C16: list_tools and call_tool on a name that has no entry in
\* connected_servers raise the not-connected error and send nothing: the
\* counter, the connection table, the session and the requests sent stay as
\* they were.
C16_UnconnectedCallChangesNothing ==
    [][(last_call'.op \in CallOps /\ last_call'.server \notin DOMAIN connected_servers)
         => /\ last_call'.out = Raise("not_connected")
            /\ UNCHANGED <<connected_servers, session, request_id_counter, sent>>]_vars

\* C16 witness: call_tool on a client that never connected and never opened a
\* session has raised the not-connected error
C16_Witness ==
    /\ last_call.op = "call_tool"
    /\ last_call.out = Raise("not_connected")
    /\ session = "none"
    /\ request_id_counter = 0
    /\ sent = <<>>

\* C17: a tools/list or tools/call request goes out to a server only while the
\* server is connected; disconnect_server(name) and disconnect_all take the name
\* out of the table, only a successful connect_server(name) puts it back, and
\* while it is out every list_tools(name) and call_tool(name) raises the
\* not-connected error.
C17_RequestsOnlyWhileConnected ==
    [][/\ (Len(sent') > Len(sent) /\ Last(sent').method # "initialize")
            => Last(sent').server \in DOMAIN connected_servers
       /\ last_call'.op = "disconnect_server"
            => last_call'.server \notin DOMAIN connected_servers'
       /\ last_call'.op = "disconnect_all" => DOMAIN connected_servers' = {}
       /\ \A s \in Servers :
             (s \notin DOMAIN connected_servers /\ s \in DOMAIN connected_servers')
                => /\ last_call'.op = "connect_server"
                   /\ last_call'.server = s
                   /\ ~last_call'.out.raised
       /\ (last_call'.op \in CallOps /\ last_call'.server \notin DOMAIN connected_servers)
            => (last_call'.out.raised /\ last_call'.out.error = "not_connected")]_vars

\* C17 witness: a server that was connected and then disconnected is asked for
\* a tool, and the call has raised the not-connected error
C17_Witness ==
    /\ last_call.op = "call_tool"
    /\ last_call.server \in dropped
    /\ last_call.server \notin DOMAIN connected_servers
    /\ last_call.out = Raise("not_connected")
    /\ \E i \in 1..Len(sent) : sent[i].server = last_call.server

HandshakeFails(reply) ==
    reply.kind = "no_response" \/ reply.status # 200 \/ reply.has_error

\* C18: connect_server raises when the handshake gets no response, a status
\* other than 200 or a response with an error object, and then
\* connected_servers is unchanged; otherwise it returns and connected_servers
\* holds under the name one entry with the capabilities and the server identity
\* of the response, the other entries being unchanged.
C18_HandshakeStoresConnectionOnlyOnSuccess ==
    [][last_call'.op = "connect_server" =>
         IF HandshakeFails(last_call'.reply)
         THEN /\ last_call'.out.raised
              /\ connected_servers' = connected_servers
         ELSE /\ ~last_call'.out.raised
              /\ DOMAIN connected_servers' =
                   DOMAIN connected_servers \cup {last_call'.server}
              /\ connected_servers'[last_call'.server] =
                   [capabilities |-> <<"capabilities", last_call'.reply.result.data>>,
                    server_info |-> <<"serverInfo", last_call'.reply.result.data>>]
              /\ \A n \in DOMAIN connected_servers \ {last_call'.server} :
                    connected_servers'[n] = connected_servers[n]]_vars

\* C18 witness: a handshake that failed for a name already connected by an
\* earlier handshake, whose entry is still there
C18_Witness ==
    /\ last_call.op = "connect_server"
    /\ last_call.prev = "connect_server"
    /\ last_call.out.raised
    /\ last_call.server \in DOMAIN connected_servers
    /\ Len(sent) = 2

\* C19: disconnect_all can be called in every state of the client and never
\* raises; after it connected_servers is empty and the session is closed or was
\* never created.
C19_DisconnectAllAlwaysSucceeds ==
    [][last_call'.op = "disconnect_all" =>
         /\ ~last_call'.out.raised
         /\ connected_servers' = EmptyDict
         /\ session' \in {"none", "closed"}]_vars

\* C19 witness: disconnect_all called twice in a row on a client that never
\* connected a server and never created a session
C19_Witness ==
    /\ last_call.op = "disconnect_all"
    /\ last_call.prev = "disconnect_all"
    /\ ~last_call.out.raised
    /\ session = "none"
    /\ sent = <<>>


\* the class of a reply, on the wire
ReplyClass(reply) ==
    IF reply.kind = "no_response" THEN "transport"
    ELSE IF reply.status # 200 THEN "status"
    ELSE IF reply.has_error THEN "protocol"
    ELSE IF reply.result.isError THEN "tool" ELSE "success"

\* what a caller of call_tool can read off the outcome alone
OutcomeClass(out) ==
    IF out.raised
    THEN IF out.error = "transport" THEN "transport"
         ELSE IF out.error = "mcp_error" THEN "protocol"
         ELSE "other"
    ELSE IF out.value.isError THEN "tool" ELSE "success"

ThreeFailuresAndSuccess == {"transport", "protocol", "tool", "success"}

\* C29: on a connected server, the outcome of call_tool alone tells its caller
\* which of a transport failure, a protocol-level error, an embedded tool failure
\* and a successful result has happened: the first two are raised with different
\* errors, the last two are returned with and without the failure mark.
C29_FailureClassesAreDistinguishable ==
    (/\ last_call.op = "call_tool"
     /\ last_call.out.error # "not_connected"
     /\ ReplyClass(last_call.reply) \in ThreeFailuresAndSuccess)
        => OutcomeClass(last_call.out) = ReplyClass(last_call.reply)

\* C29 witness: call_tool on a connected server has returned a successful
\* envelope whose payload says that the tool failed
C29_Witness ==
    /\ last_call.op = "call_tool"
    /\ last_call.server \in DOMAIN connected_servers
    /\ ReplyClass(last_call.reply) = "tool"
    /\ ~last_call.out.raised
    /\ last_call.out.value.isError


----------------------------------------------------------------------------
(* The catalog during one investigation *)

catalog_after_format_renamed(catalog) ==
    [k \in 1..Len(catalog) |->
       [catalog[k] EXCEPT !.name = format_name(catalog[k].server, catalog[k].name)]]

\* _format_tools_for_claude fills a new list and only reads self.available_tools
catalog_after_format(catalog) == catalog

\* the catalog after _discover_tools got these tools from the two servers
Discovered(grafana_tools, opsgenie_tools) ==
    [j \in 1..Len(grafana_tools) |-> tag(grafana_tools[j], <<"grafana">>)]
    \o [j \in 1..Len(opsgenie_tools) |-> tag(opsgenie_tools[j], <<"opsgenie">>)]

\* catalogs an investigation may start with: both servers listed their tools,
\* or the first of them failed to
InvestigationCatalogs ==
    {Discovered(<<Tool(<<"query">>)>>, <<Tool(<<"add", Sep, "note">>)>>),
     Discovered(<<>>, <<Tool(<<"query">>), Tool(<<"add", Sep, "note">>)>>)}

\* tools=self._format_tools_for_claude() of messages.create
GiveCatalog ==
    /\ given' = Append(given, format_tools_for_claude(available_tools))
    /\ available_tools' = catalog_after_format(available_tools)
    /\ UNCHANGED <<last_call, serverVars, taskVars, spc, cursor, initialized, listed,
                   naming, convs, webhooks>>

CatalogInit ==
    /\ ClientStarted
    /\ handled = <<>> /\ srv_session = "none"
    /\ tasks = <<>>
    /\ spc = "ready" /\ cursor = 0
    /\ available_tools \in InvestigationCatalogs
    /\ initialized = TRUE
    /\ listed = <<>>
    /\ ExtraIdle
    /\ pc = "start" /\ iteration = 0 /\ messages = <<>> /\ content = <<>>
    /\ idx = 0 /\ results = <<>> /\ outcome = [kind |-> "none", text |-> <<>>]
    /\ calls = <<>> /\ dispatched = <<>> /\ notes = <<>>

CatalogNext ==
    \/ StartAnalysis /\ UNCHANGED historyVars
    \/ LoopTest /\ UNCHANGED historyVars
    \/ ModelCompletion(PlainResponses(Len(calls) + 1)) /\ GiveCatalog
    \/ ExecuteToolCall(OkReplies) /\ UNCHANGED historyVars
    \/ FeedBack /\ UNCHANGED historyVars
    \/ UpdateTicket /\ UNCHANGED historyVars
    \/ FailureNotice /\ UNCHANGED historyVars

CatalogSpec == CatalogInit /\ [][CatalogNext]_vars

\* C28: no step of an investigation changes available_tools, and every
\* model-completion call is given the catalog that the first call was given,
\* which is the formatted catalog of the agent.
C28_CatalogIsFixedDuringInvestigation ==
    [][/\ available_tools' = available_tools
       /\ Len(given') = Len(calls')
       /\ \A k \in 1..Len(given') :
             /\ given'[k] = given'[1]
             /\ given'[k] = format_tools_for_claude(available_tools)]_vars

\* C28 witness: the model was called three times, with a batch of tool calls
\* dispatched and the feedback given in between, and the investigation is over
C28_Witness ==
    /\ pc = "done"
    /\ Len(given) = 3
    /\ calls[1] = "tool_use" /\ calls[2] = "tool_use"
    /\ Len(notes) > 0
    /\ Len(available_tools) = 2


----------------------------------------------------------------------------
(* Several incidents investigated at once by one agent *)

\* incidents whose background tasks run at the same time
NumIncidents == 2
\* messages.create calls of one investigation
MaxTurns == 2

Incidents == 1..NumIncidents

\* the brief built from the alert of incident a
BriefTurn(a) ==
    [role |-> "user", incident |-> a, kind |-> "brief", k |-> 0, ok |-> TRUE]
\* the k-th response that the model returned to the call of incident a
ModelTurn(a, k, stop_reason) ==
    [role |-> "assistant", incident |-> a, kind |-> stop_reason, k |-> k, ok |-> TRUE]
\* the results of the tool_use blocks of the k-th response to incident a
FeedbackTurn(a, k, ok) ==
    [role |-> "user", incident |-> a, kind |-> "tool_result", k |-> k, ok |-> ok]

conversation_of_agent(a) == 1

\* messages is a local of the analyze_incident call of incident a
conversation_of(a) == a

\* analyze_incident up to the call of the loop: messages = [brief]
AnalyzeIncident(a) ==
    /\ convs.pc[a] = "idle"
    /\ convs' = [convs EXCEPT !.pc[a] = "create",
                              !.messages[conversation_of(a)] = <<BriefTurn(a)>>,
                              !.own[a] = <<BriefTurn(a)>>]

\* one messages.create call of the loop of incident a and what follows it up to
\* the next await
CreateMessage(a, stop_reason) ==
    /\ convs.pc[a] = "create"
    /\ convs.n[a] < MaxTurns
    /\ IF stop_reason = "error"
       THEN convs' = [convs EXCEPT !.n[a] = @ + 1]
       ELSE convs' =
              [convs EXCEPT
                 !.n[a] = @ + 1,
                 !.messages[conversation_of(a)] =
                     add_turn(@, ModelTurn(a, convs.n[a] + 1, stop_reason)),
                 !.own[a] = Append(@, ModelTurn(a, convs.n[a] + 1, stop_reason)),
                 !.pc[a] = IF stop_reason = "tool_use" THEN "tools" ELSE "done"]

\* _execute_tool_calls of incident a: the results are a local of the call
ExecuteTools(a, ok) ==
    /\ convs.pc[a] = "tools"
    /\ convs' = [convs EXCEPT !.pc[a] = "feed",
                              !.pending[a] = <<FeedbackTurn(a, convs.n[a], ok)>>]

\* messages.append of the tool results, back in the loop of incident a
FeedResults(a) ==
    /\ convs.pc[a] = "feed"
    /\ convs' = [convs EXCEPT
                   !.pc[a] = "create",
                   !.messages[conversation_of(a)] = add_turn(@, convs.pending[a][1]),
                   !.own[a] = Append(@, convs.pending[a][1]),
                   !.pending[a] = <<>>]

IncidentsInit ==
    /\ ClientStarted
    /\ AgentStarted
    /\ AgentOff
    /\ given = <<>> /\ naming = NoNaming /\ webhooks = <<>>
    /\ convs = [pc |-> [a \in Incidents |-> "idle"],
                n |-> [a \in Incidents |-> 0],
                pending |-> [a \in Incidents |-> <<>>],
                own |-> [a \in Incidents |-> <<>>],
                messages |-> [a \in Incidents |-> <<>>]]

IncidentsFrame ==
    UNCHANGED <<clientVars, agentVars, last_call, serverVars, taskVars, startVars,
                given, naming, webhooks>>

IncidentsNext ==
    \/ \E a \in Incidents : AnalyzeIncident(a) /\ IncidentsFrame
    \/ \E a \in Incidents, stop_reason \in {"tool_use", "end_turn", "error"} :
          CreateMessage(a, stop_reason) /\ IncidentsFrame
    \/ \E a \in Incidents, ok \in BOOLEAN : ExecuteTools(a, ok) /\ IncidentsFrame
    \/ \E a \in Incidents : FeedResults(a) /\ IncidentsFrame

IncidentsSpec == IncidentsInit /\ [][IncidentsNext]_vars

\* C27: under every interleaving of the investigations, the conversation of an
\* incident is its own brief followed by the model turns returned to it and the
\* feedback turns of its own tool requests, in the order they happened; it holds
\* no turn of another incident.
C27_ConversationsDoNotMix ==
    \A a \in Incidents :
       convs.pc[a] # "idle" =>
          /\ convs.messages[a] = convs.own[a]
          /\ convs.messages[a][1] = BriefTurn(a)
          /\ \A j \in 1..Len(convs.messages[a]) : convs.messages[a][j].incident = a

\* C27 witness: both investigations are waiting for tool results at the same
\* time, the first after a complete round of tool use, the second in its first
C27_Witness ==
    /\ convs # <<>>
    /\ convs.pc[1] = "tools" /\ convs.pc[2] = "tools"
    /\ Len(convs.messages[1]) = 4
    /\ Len(convs.messages[2]) = 2


----------------------------------------------------------------------------
(* The webhook endpoint: handle_opsgenie_webhook of main.py *)

\* webhook requests received
MaxWebhooks == 2

required_fields == {"alertId", "message", "entity"}

\* request bodies: not JSON, a JSON object without 'alert', a JSON object whose
\* 'alert' is an object with some of the required fields
Payloads ==
    {[json |-> FALSE, has_alert |-> FALSE, fields |-> {}],
     [json |-> TRUE, has_alert |-> FALSE, fields |-> {}]}
    \cup {[json |-> TRUE, has_alert |-> TRUE, fields |-> f] :
            f \in SUBSET required_fields}

\* the body of the try block: the exception it raises, or the task it starts
\* and the response it returns
webhook_body(payload) ==
    IF ~payload.json THEN [raised |-> "JSONDecodeError", status |-> 0, started |-> 0]
    ELSE IF ~payload.has_alert
    THEN [raised |-> "HTTPException", status |-> 400, started |-> 0]
    ELSE IF required_fields \ payload.fields # {}
    THEN [raised |-> "HTTPException", status |-> 400, started |-> 0]
    ELSE [raised |-> "", status |-> 200, started |-> 1]

\* except json.JSONDecodeError: 400; except Exception: 500, which is the
\* clause that an HTTPException raised in the try block reaches
webhook_except(body) ==
    IF body.raised = "" THEN body.status
    ELSE IF body.raised = "JSONDecodeError" THEN 400
    ELSE 500

handle_opsgenie_webhook(payload) ==
    /\ Len(webhooks) < MaxWebhooks
    /\ webhooks' = Append(webhooks,
         [payload |-> payload,
          status |-> webhook_except(webhook_body(payload)),
          started |-> webhook_body(payload).started])

WebhookNext ==
    \E payload \in Payloads :
       /\ handle_opsgenie_webhook(payload)
       /\ UNCHANGED <<clientVars, agentVars, last_call, serverVars, taskVars, startVars,
                      given, naming, convs>>

WebhookInit == ClientStarted /\ AgentStarted /\ AgentOff /\ ExtraIdle

WebhookSpec == WebhookInit /\ [][WebhookNext]_vars

ValidPayload(payload) ==
    payload.json /\ payload.has_alert /\ required_fields \subseteq payload.fields

\* C30: a body that is not JSON, a payload without 'alert' and an alert that
\* lacks one of alertId, message, entity get status 400 and start no
\* investigation; a valid payload gets status 200 and starts exactly one.
C30_InvalidPayloadGets400 ==
    \A j \in 1..Len(webhooks) :
       IF ValidPayload(webhooks[j].payload)
       THEN webhooks[j].status = 200 /\ webhooks[j].started = 1
       ELSE webhooks[j].status = 400 /\ webhooks[j].started = 0


----------------------------------------------------------------------------
(* The life of the agent: initialize, one incident, shutdown *)

may_analyze_always(flag) == TRUE

\* if not self.initialized: raise RuntimeError(...)
may_analyze(flag) == flag

NotInitialized == [kind |-> "error", text |-> <<"Agent not initialized">>]

\* process_incident_async calls analyze_incident: the guard, then the first turn
analyze_incident ==
    /\ pc = "start"
    /\ IF may_analyze(initialized)
       THEN /\ messages' = <<Turn("user", create_investigation_prompt("A1"))>>
            /\ pc' = "loop"
            /\ UNCHANGED outcome
       ELSE /\ outcome' = NotInitialized
            /\ pc' = "failed"
            /\ UNCHANGED messages
    /\ UNCHANGED <<iteration, content, idx, results, calls, dispatched, notes>>
    /\ UNCHANGED clientVars

\* AutonomousIncidentAgent.shutdown, run by the shutdown event of the application
shutdown ==
    /\ spc = "ready"
    /\ disconnect_all
    /\ initialized' = FALSE
    /\ spc' = "stopped"
    /\ UNCHANGED <<cursor, available_tools, listed>>

\* what a server lists in the runs of the lifecycle
ListedTools == <<Tool(<<"add", Sep, "note">>)>>

LifecycleInit ==
    /\ connected_servers = EmptyDict
    /\ session = "none"
    /\ request_id_counter = 0
    /\ sent = <<>>
    /\ dropped = {}
    /\ last_call = NoCall
    /\ ExtraIdle
    /\ handled = <<>> /\ srv_session = "none"
    /\ tasks = <<>>
    /\ spc = "connect" /\ cursor = 1 /\ available_tools = <<>>
    /\ initialized = FALSE /\ listed = <<>>
    /\ pc = "start" /\ iteration = 0 /\ messages = <<>> /\ content = <<>>
    /\ idx = 0 /\ results = <<>> /\ outcome = [kind |-> "none", text |-> <<>>]
    /\ calls = <<>> /\ dispatched = <<>> /\ notes = <<>>

LifecycleNext ==
    \/ \E reply \in Replies :
          InitializeConnect(reply) /\ UNCHANGED <<agentVars, serverVars, taskVars, extraVars>>
    \/ \E reply \in Replies :
          DiscoverTools(reply, ListedTools)
             /\ UNCHANGED <<agentVars, serverVars, taskVars, extraVars>>
    \/ shutdown /\ UNCHANGED <<agentVars, serverVars, taskVars, extraVars>>
    \/ analyze_incident /\ UNCHANGED historyVars
    \/ LoopTest /\ UNCHANGED historyVars
    \/ ModelCompletion(PlainResponses(Len(calls) + 1)) /\ UNCHANGED historyVars
    \/ ExecuteToolCall(OkReplies) /\ UNCHANGED historyVars
    \/ FeedBack /\ UNCHANGED historyVars
    \/ UpdateTicket /\ UNCHANGED historyVars
    \/ FailureNotice /\ UNCHANGED historyVars

LifecycleSpec == LifecycleInit /\ [][LifecycleNext]_vars

\* C31: a call of analyze_incident on an agent that is not initialized (before
\* initialize has succeeded, after it failed, after shutdown) fails with 'Agent
\* not initialized' and issues no model-completion call and no request; a call
\* on an initialized agent starts the investigation; so a model-completion call
\* exists only in an investigation that began on an initialized agent.
C31_NoAnalysisUnlessInitialized ==
    [][/\ (pc = "start" /\ pc' # "start") =>
            IF initialized
            THEN pc' = "loop" /\ Len(messages') = 1 /\ outcome' = outcome
            ELSE /\ outcome' = NotInitialized
                 /\ pc' = "failed"
                 /\ UNCHANGED <<messages, calls, dispatched, sent, request_id_counter>>
       /\ outcome' = NotInitialized => (calls' = <<>> /\ dispatched' = <<>>)
       /\ calls' # <<>> => spc' \in {"ready", "stopped"}]_vars

\* C31 witness: the incident came after shutdown and was refused; the failure
\* notice was attempted and no model call was made
C31_Witness ==
    /\ spc = "stopped"
    /\ outcome = NotInitialized
    /\ pc = "done"
    /\ calls = <<>>
    /\ Len(notes) = 1


----------------------------------------------------------------------------
(* Claims about the conversations that the model is given *)

\* every model-completion call so far returned a tool-requesting response or
\* failed
OnlyToolUseAndFailures ==
    \A j \in 1..Len(calls) : calls[j] \in {"tool_use", "failed"}

Alternates(msgs) ==
    \A j \in 1..Len(msgs) : msgs[j].role = IF j % 2 = 1 THEN "user" ELSE "assistant"

\* C32: after any sequence of tool-requesting responses and failed
\* model-completion calls, the conversation that the next call submits starts
\* with the brief, alternates user and assistant turns and ends with a user
\* turn; a failed call leaves the conversation as it was.
C32_SubmittedConversationEndsWithUserTurn ==
    [][/\ (pc' = "create" /\ OnlyToolUseAndFailures')
            => /\ messages' # <<>>
               /\ Alternates(messages')
               /\ Last(messages').role = "user"
       /\ (pc = "create" /\ Len(calls') = Len(calls) + 1 /\ Last(calls') = "failed")
            => messages' = messages]_vars

\* C32 witness: the third call is about to submit the conversation, after a
\* tool-requesting response and a failed call
C32_Witness ==
    /\ pc = "create"
    /\ calls = <<"tool_use", "failed">>
    /\ Len(messages) = 3
    /\ messages[3].role = "user"


----------------------------------------------------------------------------
(* The tools of the capability server: what it lists and what it routes *)

\* names a client may ask for: the four tools of the server and names it
\* does not have
CallNames == {"add_note", "get_alert", "update_alert_priority", "add_tags",
              "restart_service", "add_notes"}

\* tools/list requests, and tools/call requests with the arguments of add_note
\* or with no argument
RoutingRequests ==
    {Request(0, "tools/list", NoParams)}
    \cup {Request(0, "tools/call", [name |-> n, arguments |-> a]) :
            n \in CallNames, a \in {{"alert_id", "note"}, {}}}

RoutingNext ==
    \E request \in RoutingRequests, backend \in {0, 200} :
       /\ Len(handled) < MaxHandled
       /\ HandleRequest(request, backend)
       /\ UNCHANGED <<clientVars, agentVars, last_call, taskVars, startVars, extraVars>>

RoutingSpec == ClientInit /\ [][RoutingNext]_vars

\* the names in the result of a tools/list response
Advertised(h) == {h.response.result.body[k] : k \in 1..Len(h.response.result.body)}

\* C33: the names that a tools/list response advertises are the names that
\* tools/call routes: a call of an advertised name runs the handler of that
\* name, a call of any other name runs no handler and is answered with an
\* error response.
C33_AdvertisedToolsAreTheRoutedTools ==
    \A i \in 1..Len(handled), j \in 1..Len(handled) :
       (handled[i].request.method = "tools/list"
          /\ handled[j].request.method = "tools/call")
       => IF handled[j].request.name \in Advertised(handled[i])
          THEN handled[j].ran = handled[j].request.name
          ELSE /\ handled[j].ran = "none"
               /\ ~handled[j].escaped
               /\ handled[j].response.has_error
               /\ ~handled[j].response.has_result

\* C33 witness: the server has listed its tools and then run the handler of
\* add_tags, the last name of the list
C33_Witness ==
    /\ Len(handled) = 2
    /\ handled[1].request.method = "tools/list"
    /\ Len(handled[1].response.result.body) = 4
    /\ handled[2].request.method = "tools/call"
    /\ handled[2].request.name = "add_tags"
    /\ handled[2].ran = "add_tags"


----------------------------------------------------------------------------
(* Claims about the background task of an incident *)

FailureNotes == SelectSeq(notes, LAMBDA n : n.kind = "failure")

\* C34: the task of an incident never ends with an error: an investigation that
\* failed is followed by one attempt of the failure notice, whose own failure is
\* swallowed, and the task completes; the failure path leaves the agent
\* (initialized, the catalog, the connections) as it was and touches nothing of
\* another task.
C34_BackgroundTaskAlwaysCompletes ==
    /\ [](pc # "escaped" /\ Len(FailureNotes) <= 1)
    /\ [][pc = "failed" =>
            /\ pc' = "done"
            /\ Len(notes') = Len(notes) + 1
            /\ Last(notes').kind = "failure"
            /\ UNCHANGED <<initialized, available_tools, connected_servers, session,
                           tasks, convs, messages, outcome>>]_vars
    /\ (pc = "failed") ~> (pc = "done")
    /\ <>(pc = "done")

\* C34 witness: the investigation failed, the failure notice failed too, and
\* the task is complete
C34_Witness ==
    /\ pc = "done"
    /\ outcome.kind = "error"
    /\ Len(FailureNotes) = 1
    /\ FailureNotes[1].raised

====
